---- MODULE Spec2Model ----
(***************************************************************************)
(* csv2parquet: the command-line driver (src/src/main.rs) and the option   *)
(* and compression types of the library (src/src/lib.rs).                  *)
(*                                                                         *)
(* Strings and paths are sequences of one-character strings, so that the   *)
(* path and delimiter functions are computed character by character.       *)
(* Option<T> is a sequence of length 0 (None) or 1 (Some), Result<T> is a  *)
(* record with the field ok.                                               *)
(***************************************************************************)
EXTENDS Integers, Sequences, FiniteSets, TLC

VARIABLES cli, options, pc, total_files, successful, failed, results,
          exit_code, output_path, compression, parquet

vars == <<cli, options, pc, total_files, successful, failed, results,
          exit_code, output_path, compression, parquet>>

None == <<>>
Some(x) == <<x>>
Ok(x) == [ok |-> TRUE, val |-> x]
Err(e) == [ok |-> FALSE, err |-> e]

(***************************************************************************)
(* Bounds of the model.                                                    *)
(***************************************************************************)
MaxPathLen == 4
MaxFiles == 3
MaxLevel == 24

(***************************************************************************)
(* std::path on Unix, as far as determine_output_path uses it.  "?" stands *)
(* for a byte that is not valid UTF-8.                                     *)
(***************************************************************************)
PathChars == {"/", ".", "a", "?"}

RECURSIVE SeqsUpTo(_, _)
SeqsUpTo(S, n) ==
    IF n = 0 THEN {<<>>}
    ELSE LET shorter == SeqsUpTo(S, n - 1)
         IN shorter \cup {Append(s, c) : s \in {t \in shorter : Len(t) = n - 1}, c \in S}

Paths == SeqsUpTo(PathChars, MaxPathLen)

Extension == <<".", "p", "a", "r", "q", "u", "e", "t">>

HasRoot(p) == Len(p) > 0 /\ p[1] = "/"

IncludeCurDir(p) ==
    /\ ~HasRoot(p)
    /\ Len(p) > 0
    /\ p[1] = "."
    /\ (Len(p) = 1 \/ p[2] = "/")

LenBeforeBody(p) ==
    (IF HasRoot(p) THEN 1 ELSE 0) + (IF IncludeCurDir(p) THEN 1 ELSE 0)

\* Index of the last "/" of p at a position above start, start when there
\* is none: the component at the back of p begins right after it.
LastSep(p, start) ==
    LET seps == {k \in (start + 1)..Len(p) : p[k] = "/"}
    IN IF seps = {} THEN start ELSE CHOOSE k \in seps : \A j \in seps : j <= k

\* The component of p after position sep, and p without it and without the
\* separator before it.
SplitBack(p, start, sep) ==
    [comp |-> SubSeq(p, sep + 1, Len(p)),
     rest |-> SubSeq(p, 1, IF sep > start THEN sep - 1 ELSE start)]

\* Components::parse_next_component_back: the last component of the body and
\* what is left of the path once it (and its separator) is removed.
ParseNextComponentBack(p) ==
    SplitBack(p, LenBeforeBody(p), LastSep(p, LenBeforeBody(p)))

\* Components::next_back: the kind of the last component, its text and the
\* rest of the path.  Empty components and "." components are skipped.
RECURSIVE NextBack(_)
NextBackBody(r) ==
    IF r.comp = <<>> \/ r.comp = <<".">> THEN NextBack(r.rest)
    ELSE IF r.comp = <<".", ".">>
         THEN [kind |-> "ParentDir", comp |-> r.comp, rest |-> r.rest]
         ELSE [kind |-> "Normal", comp |-> r.comp, rest |-> r.rest]

NextBack(p) ==
    IF Len(p) > LenBeforeBody(p) THEN NextBackBody(ParseNextComponentBack(p))
    ELSE IF HasRoot(p)
         THEN [kind |-> "RootDir", comp |-> <<"/">>, rest |-> SubSeq(p, 1, Len(p) - 1)]
    ELSE IF IncludeCurDir(p)
         THEN [kind |-> "CurDir", comp |-> <<".">>, rest |-> SubSeq(p, 1, Len(p) - 1)]
    ELSE [kind |-> "None", comp |-> <<>>, rest |-> p]

\* Components::trim_right, as Components::as_path applies it.
RECURSIVE TrimRight(_)
TrimRightBody(p, r) ==
    IF r.comp = <<>> \/ r.comp = <<".">> THEN TrimRight(r.rest) ELSE p

TrimRight(p) ==
    IF Len(p) > LenBeforeBody(p) THEN TrimRightBody(p, ParseNextComponentBack(p))
    ELSE p

\* Path::file_name, from the last component
FileNameOf(r) == IF r.kind = "Normal" THEN Some(r.comp) ELSE None

file_name(p) == FileNameOf(NextBack(p))

\* Path::parent, from the last component
ParentOf(r) ==
    IF r.kind \in {"Normal", "CurDir", "ParentDir"}
    THEN Some(TrimRight(r.rest))
    ELSE None

parent(p) == ParentOf(NextBack(p))

\* Index of the last "." of s, 0 when there is none.
LastDot(s) ==
    LET dots == {k \in 1..Len(s) : s[k] = "."}
    IN IF dots = {} THEN 0 ELSE CHOOSE k \in dots : \A j \in dots : j <= k

\* rsplit_file_at_dot and before.or(after): the file name up to its last ".",
\* the whole file name when it has no "." or only a leading one.
StemOf(name) ==
    IF name = None THEN None
    ELSE IF LastDot(name[1]) <= 1 THEN name
    ELSE Some(SubSeq(name[1], 1, LastDot(name[1]) - 1))

\* Path::file_stem
file_stem(p) == StemOf(file_name(p))

\* OsStr::to_str: None when the text is not valid UTF-8.
to_str(s) == IF \E k \in 1..Len(s) : s[k] = "?" THEN None ELSE Some(s)

\* Path::join with a second path; the first is dropped when the second is
\* absolute, and a separator is added unless the first is empty or ends
\* with one.
join(dir, path) ==
    IF HasRoot(path) THEN path
    ELSE IF Len(dir) > 0 /\ dir[Len(dir)] # "/" THEN dir \o <<"/">> \o path
    ELSE dir \o path

\* anyhow::Context::context on an Option
context(opt, msg) == IF opt = None THEN Err(msg) ELSE Ok(opt[1])

\* .to_str().context(..)? on the file stem, once the first ? has passed
StemToStr(stem) ==
    IF ~stem.ok THEN stem
    ELSE context(to_str(stem.val), "Filename is not valid UTF-8")

\* input_stem of determine_output_path
InputStem(input) ==
    StemToStr(context(file_stem(input), "Invalid input filename"))

\* output_path of determine_output_path
OutputPath(output_filename, output_dir, input_parent) ==
    IF output_dir # None THEN join(output_dir[1], output_filename)
    ELSE IF input_parent # None THEN join(input_parent[1], output_filename)
    ELSE output_filename

\* determine_output_path, from the stem and the parent of the input
WithStem(input_stem, output_dir, input_parent) ==
    IF ~input_stem.ok THEN input_stem
    ELSE Ok(OutputPath(input_stem.val \o Extension, output_dir, input_parent))

\* determine_output_path with the file name taken in place of the file stem.
determine_output_path_file_name(input, output_dir) ==
    WithStem(StemToStr(context(file_name(input), "Invalid input filename")),
             output_dir, parent(input))

\* determine_output_path(input, output_dir)
determine_output_path(input, output_dir) ==
    WithStem(InputStem(input), output_dir, parent(input))

(***************************************************************************)
(* Command-line strings: the UTF-8 bytes of each character that the        *)
(* delimiter and quote arguments are drawn from.  "e'" is a two-byte       *)
(* character (U+00E9).                                                     *)
(***************************************************************************)
Utf8(c) ==
    CASE c = "," -> <<44>>
      [] c = ";" -> <<59>>
      [] c = "|" -> <<124>>
      [] c = "\t" -> <<9>>
      [] c = "\\" -> <<92>>
      [] c = "t" -> <<116>>
      [] c = "\"" -> <<34>>
      [] c = "'" -> <<39>>
      [] c = "n" -> <<110>>
      [] c = "o" -> <<111>>
      [] c = "e" -> <<101>>
      [] c = "N" -> <<78>>
      [] c = "O" -> <<79>>
      [] c = "E" -> <<69>>
      [] c = "e'" -> <<195, 169>>

RECURSIVE as_bytes(_)
as_bytes(s) == IF s = <<>> THEN <<>> ELSE Utf8(Head(s)) \o as_bytes(Tail(s))

\* str::len counts bytes
str_len(s) == Len(as_bytes(s))

lower_char(c) ==
    CASE c = "N" -> "n"
      [] c = "O" -> "o"
      [] c = "E" -> "e"
      [] OTHER -> c

to_lowercase(s) == [k \in 1..Len(s) |-> lower_char(s[k])]

\* parse_delimiter
parse_delimiter(s) ==
    IF s = <<",">> THEN Ok(44)
    ELSE IF s = <<";">> THEN Ok(59)
    ELSE IF s = <<"|">> THEN Ok(124)
    ELSE IF s = <<"\\", "t">> \/ s = <<"\t">> THEN Ok(9)
    ELSE IF str_len(s) = 1 THEN Ok(as_bytes(s)[1])
    ELSE Err("Delimiter must be a single character")

\* parse_quote_char
parse_quote_char(s) ==
    LET l == to_lowercase(s)
    IN IF l = <<"n", "o", "n", "e">> \/ l = <<>> THEN Ok(None)
       ELSE IF l = <<"\"">> THEN Ok(Some(34))
       ELSE IF l = <<"'">> THEN Ok(Some(39))
       ELSE IF str_len(s) = 1 THEN Ok(Some(as_bytes(s)[1]))
       ELSE Err("Quote character must be a single character or 'none'")

(***************************************************************************)
(* Compression (lib.rs) and CompressionType (main.rs).  A value is a tag   *)
(* and a level; the codecs without a level carry None.                     *)
(***************************************************************************)
CompressionType == {"Uncompressed", "Snappy", "Gzip", "Lz4", "Zstd", "Brotli"}

Compression(tag, level) == [tag |-> tag, level |-> level]

I32Max == 2147483647

\* u32 as u8 and u32 as i32
as_u8(l) == l % 256
as_i32(l) == IF l > I32Max THEN l - I32Max - I32Max - 2 ELSE l

\* CompressionType::to_compression
to_compression(type, level) ==
    CASE type = "Uncompressed" -> Compression("Uncompressed", None)
      [] type = "Snappy" -> Compression("Snappy", None)
      [] type = "Gzip" ->
            Compression("Gzip", IF level = None THEN None ELSE Some(as_u8(level[1])))
      [] type = "Lz4" -> Compression("Lz4", None)
      [] type = "Zstd" ->
            Compression("Zstd", IF level = None THEN None ELSE Some(as_i32(level[1])))
      [] type = "Brotli" -> Compression("Brotli", level)

\* The levels GzipLevel::try_new, ZstdLevel::try_new and BrotliLevel::try_new
\* of the dataframe library accept.
GzipLevels == 0..10
ZstdLevels == 1..22
BrotliLevels == 0..11

try_new(codec, l) ==
    LET valid == CASE codec = "Gzip" -> GzipLevels
                   [] codec = "Zstd" -> ZstdLevels
                   [] codec = "Brotli" -> BrotliLevels
    IN IF l \in valid THEN Ok(l) ELSE Err("PolarsError")

ParquetCompression(codec, level) == [codec |-> codec, level |-> level]

\* with_level with a rejected level dropped in place of reported.
with_level_lenient(codec, level) ==
    IF level # None
    THEN LET r == try_new(codec, level[1])
         IN IF r.ok THEN Ok(ParquetCompression(codec, Some(r.val)))
            ELSE Ok(ParquetCompression(codec, None))
    ELSE Ok(ParquetCompression(codec, None))

\* The match arm of to_parquet_compression for a codec that takes a level.
with_level(codec, level) ==
    IF level # None
    THEN LET r == try_new(codec, level[1])
         IN IF r.ok THEN Ok(ParquetCompression(codec, Some(r.val)))
            ELSE Err("InvalidCompressionLevel")
    ELSE Ok(ParquetCompression(codec, None))

\* Compression::to_parquet_compression
to_parquet_compression(c) ==
    CASE c.tag = "Uncompressed" -> Ok(ParquetCompression("Uncompressed", None))
      [] c.tag = "Snappy" -> Ok(ParquetCompression("Snappy", None))
      [] c.tag = "Gzip" -> with_level("Gzip", c.level)
      [] c.tag = "Lz4" -> Ok(ParquetCompression("Lz4Raw", None))
      [] c.tag = "Zstd" -> with_level("Zstd", c.level)
      [] c.tag = "Brotli" -> with_level("Brotli", c.level)

(***************************************************************************)
(* ConversionOptions and the command line.                                 *)
(***************************************************************************)
\* ConversionOptions::default with a single row group.
ConversionOptions_default_single_group ==
    [has_header |-> TRUE,
     delimiter |-> 44,
     quote_char |-> Some(34),
     infer_schema_rows |-> Some(1000),
     compression |-> Compression("Zstd", None),
     row_group_size |-> None,
     n_threads |-> None,
     low_memory |-> FALSE,
     statistics |-> TRUE,
     parallel |-> TRUE]

\* impl Default for ConversionOptions
ConversionOptions_default ==
    [has_header |-> TRUE,
     delimiter |-> 44,
     quote_char |-> Some(34),
     infer_schema_rows |-> Some(1000),
     compression |-> Compression("Zstd", None),
     row_group_size |-> Some(500000),
     n_threads |-> None,
     low_memory |-> FALSE,
     statistics |-> TRUE,
     parallel |-> TRUE]

\* The values the derive attributes of Cli give the optional arguments.
CliDefaults ==
    [output_dir |-> None,
     compression |-> "zstd",
     compression_level |-> None,
     has_header |-> TRUE,
     delimiter |-> <<",">>,
     quote_char |-> <<"\"">>,
     infer_schema_rows |-> 1000,
     row_group_size |-> 500000,
     threads |-> 0,
     low_memory |-> FALSE,
     no_statistics |-> FALSE,
     no_parallel |-> FALSE]

\* clap::ValueEnum of CompressionType: the argument value of each variant.
value_enum(name) ==
    CASE name = "uncompressed" -> "Uncompressed"
      [] name = "snappy" -> "Snappy"
      [] name = "gzip" -> "Gzip"
      [] name = "lz4" -> "Lz4"
      [] name = "zstd" -> "Zstd"
      [] name = "brotli" -> "Brotli"

\* build_conversion_options with the thread count passed on as given.
build_conversion_options_threads(c) ==
    LET delimiter == parse_delimiter(c.delimiter)
        quote_char == parse_quote_char(c.quote_char)
        comp == to_compression(value_enum(c.compression), c.compression_level)
        infer_schema_rows == IF c.infer_schema_rows = 0 THEN None
                             ELSE Some(c.infer_schema_rows)
    IN IF ~delimiter.ok THEN Err("Invalid delimiter")
       ELSE IF ~quote_char.ok THEN Err("Invalid quote character")
       ELSE Ok([has_header |-> c.has_header,
                delimiter |-> delimiter.val,
                quote_char |-> quote_char.val,
                infer_schema_rows |-> infer_schema_rows,
                compression |-> comp,
                row_group_size |-> Some(c.row_group_size),
                n_threads |-> Some(c.threads),
                low_memory |-> c.low_memory,
                statistics |-> ~c.no_statistics,
                parallel |-> ~c.no_parallel])

\* build_conversion_options
build_conversion_options(c) ==
    LET delimiter == parse_delimiter(c.delimiter)
        quote_char == parse_quote_char(c.quote_char)
        comp == to_compression(value_enum(c.compression), c.compression_level)
        infer_schema_rows == IF c.infer_schema_rows = 0 THEN None
                             ELSE Some(c.infer_schema_rows)
        n_threads == IF c.threads = 0 THEN None ELSE Some(c.threads)
    IN IF ~delimiter.ok THEN Err("Invalid delimiter")
       ELSE IF ~quote_char.ok THEN Err("Invalid quote character")
       ELSE Ok([has_header |-> c.has_header,
                delimiter |-> delimiter.val,
                quote_char |-> quote_char.val,
                infer_schema_rows |-> infer_schema_rows,
                compression |-> comp,
                row_group_size |-> Some(c.row_group_size),
                n_threads |-> n_threads,
                low_memory |-> c.low_memory,
                statistics |-> ~c.no_statistics,
                parallel |-> ~c.no_parallel])

(***************************************************************************)
(* convert_csv_to_parquet.  What reading the CSV file, creating the output *)
(* file and writing the Parquet data do is decided outside the program;    *)
(* env names the step that fails, "ok" when none does.                     *)
(***************************************************************************)
Environments == {"ok", "CsvRead", "Io", "ParquetWrite"}

\* read_csv
read_csv(env) == IF env = "CsvRead" THEN Err("CsvRead") ELSE Ok("df")

\* write_parquet
write_parquet(env, opts) ==
    IF env = "Io" THEN Err("Io")
    ELSE LET c == to_parquet_compression(opts.compression)
         IN IF ~c.ok THEN Err(c.err)
            ELSE IF env = "ParquetWrite" THEN Err("ParquetWrite")
            ELSE Ok("bytes_written")

convert_csv_to_parquet(env, opts) ==
    LET df == read_csv(env)
    IN IF ~df.ok THEN Err(df.err)
       ELSE LET written == write_parquet(env, opts)
            IN IF ~written.ok THEN Err(written.err) ELSE Ok("stats")

(***************************************************************************)
(* main.  pc is "start" before the options are built, "loop" while the     *)
(* input files are processed and "done" once the process has finished.     *)
(* results lists the calls of convert_csv_to_parquet that returned: the    *)
(* position of the file on the command line and whether the call returned  *)
(* Ok (a line on stdout) or Err (a line on stderr).                        *)
(***************************************************************************)
BuildOptions ==
    /\ pc = "start"
    /\ LET r == build_conversion_options(cli)
       IN /\ options' = Some(r)
          /\ IF r.ok
             THEN pc' = "loop" /\ exit_code' = exit_code
             ELSE pc' = "done" /\ exit_code' = Some(1)
    /\ UNCHANGED <<cli, total_files, successful, failed, results, output_path,
                   compression, parquet>>

\* One iteration of the loop over cli.input_files.
ProcessFile ==
    /\ pc = "loop"
    /\ total_files < Len(cli.input_files)
    /\ total_files' = total_files + 1
    /\ output_path' = Some(determine_output_path(cli.input_files[total_files + 1],
                                                 cli.output_dir))
    /\ IF ~output_path'[1].ok
       THEN /\ pc' = "done"
            /\ exit_code' = Some(1)
            /\ UNCHANGED <<successful, failed, results>>
       ELSE \E env \in Environments :
              LET r == convert_csv_to_parquet(env, options[1].val)
              IN /\ successful' = IF r.ok THEN successful + 1 ELSE successful
                 /\ failed' = IF r.ok THEN failed ELSE failed + 1
                 /\ results' = Append(results,
                                  [file |-> total_files + 1,
                                   outcome |-> IF r.ok THEN "Ok" ELSE "Err"])
                 /\ UNCHANGED <<pc, exit_code>>
    /\ UNCHANGED <<cli, options, compression, parquet>>

\* After the loop: exit(1) when a conversion failed, Ok(()) otherwise.
Finish ==
    /\ pc = "loop"
    /\ total_files = Len(cli.input_files)
    /\ pc' = "done"
    /\ exit_code' = IF failed > 0 THEN Some(1) ELSE Some(0)
    /\ UNCHANGED <<cli, options, total_files, successful, failed, results,
                   output_path, compression, parquet>>

\* The input files of the driver runs: a file with an extension, a file in
\* a directory, and two paths without a UTF-8 file stem.
FilePool == {<<"a", ".", "a">>, <<"a", "/", "a">>, <<".", ".">>, <<"?">>}

FileLists == {l \in SeqsUpTo(FilePool, MaxFiles) : Len(l) >= 1}

MainClis ==
    {[f \in DOMAIN CliDefaults \cup {"input_files"} |->
        CASE f = "input_files" -> files
          [] f = "output_dir" -> dir
          [] f = "delimiter" -> delim
          [] f = "compression_level" -> level
          [] OTHER -> CliDefaults[f]] :
      files \in FileLists,
      dir \in {None, Some(<<"a">>)},
      delim \in {<<",">>, <<"e'">>},
      level \in {None, Some(30)}}

Idle ==
    /\ options = None
    /\ total_files = 0
    /\ successful = 0
    /\ failed = 0
    /\ results = <<>>
    /\ exit_code = None
    /\ output_path = None
    /\ parquet = None

Init ==
    /\ cli \in MainClis
    /\ pc = "start"
    /\ compression = Compression("Uncompressed", None)
    /\ Idle

Next == BuildOptions \/ ProcessFile \/ Finish

Spec == Init /\ [][Next]_vars

(***************************************************************************)
(* build_conversion_options on its own, over a wider set of command lines. *)
(* has_header ranges over both values of the field of Cli, although the    *)
(* flag as declared can only set it to true.                               *)
(***************************************************************************)
Delimiters == {<<",">>, <<"\\", "t">>, <<"t">>, <<"e'">>, <<>>}
QuoteChars == {<<"\"">>, <<"N", "o", "n", "e">>, <<"N">>, <<"n", "o">>}
Levels == {None, Some(3), Some(259)}
Counts == {0, 1, 1000}

OptsClis ==
    {[input_files |-> <<<<"a", ".", "a">>>>,
      output_dir |-> None,
      compression |-> comp,
      compression_level |-> level,
      has_header |-> hh,
      delimiter |-> delim,
      quote_char |-> quote,
      infer_schema_rows |-> rows,
      row_group_size |-> rgs,
      threads |-> thr,
      low_memory |-> lm,
      no_statistics |-> ns,
      no_parallel |-> np] :
      comp \in {"zstd", "gzip", "snappy"}, level \in Levels, hh \in BOOLEAN,
      delim \in Delimiters, quote \in QuoteChars, rows \in Counts,
      rgs \in {0, 500000}, thr \in Counts, lm \in BOOLEAN, ns \in BOOLEAN,
      np \in BOOLEAN}

InitOpts ==
    /\ cli \in OptsClis
    /\ pc = "start"
    /\ compression = Compression("Uncompressed", None)
    /\ Idle

SpecOpts == InitOpts /\ [][BuildOptions]_vars

(***************************************************************************)
(* determine_output_path on its own, over every path of the bound.         *)
(***************************************************************************)
OutputDirs == {None, Some(<<>>), Some(<<"a">>), Some(<<"/", "a", "/">>)}

DetermineOutputPath ==
    /\ pc = "path"
    /\ output_path' = Some(determine_output_path(cli.input_files[1], cli.output_dir))
    /\ pc' = "path_done"
    /\ UNCHANGED <<cli, options, total_files, successful, failed, results,
                   exit_code, compression, parquet>>

InitPath ==
    /\ cli \in {[f \in DOMAIN CliDefaults \cup {"input_files"} |->
                   CASE f = "input_files" -> <<p>>
                     [] f = "output_dir" -> dir
                     [] OTHER -> CliDefaults[f]] :
                 p \in Paths, dir \in OutputDirs}
    /\ pc = "path"
    /\ compression = Compression("Uncompressed", None)
    /\ Idle

SpecPath == InitPath /\ [][DetermineOutputPath]_vars

(***************************************************************************)
(* Compression::to_parquet_compression on its own.                         *)
(***************************************************************************)
Compressions ==
    {Compression(t, None) : t \in CompressionType}
    \cup {Compression("Gzip", Some(l)) : l \in (0..MaxLevel) \cup {255}}
    \cup {Compression("Zstd", Some(l)) : l \in -2..MaxLevel}
    \cup {Compression("Brotli", Some(l)) : l \in 0..MaxLevel}

ToParquetCompression ==
    /\ pc = "compression"
    /\ parquet' = Some(to_parquet_compression(compression))
    /\ pc' = "compression_done"
    /\ UNCHANGED <<cli, options, total_files, successful, failed, results,
                   exit_code, output_path, compression>>

InitCompression ==
    /\ cli = CliDefaults
    /\ pc = "compression"
    /\ compression \in Compressions
    /\ Idle

SpecCompression == InitCompression /\ [][ToParquetCompression]_vars

(***************************************************************************)
(* Properties.                                                             *)
(***************************************************************************)
OptionsBuilt == options # None /\ options[1].ok

\* C1: once the options are built, the process ends only after the loop
\* has reached every input file, whatever errors the files before it met,
\* and the conversions it has made are those of the files in command-line
\* order, each once.
C1_EveryFileAttempted ==
    (pc = "done" /\ OptionsBuilt) =>
        /\ total_files = Len(cli.input_files)
        /\ \A j, k \in 1..Len(results) : j < k => results[j].file < results[k].file

\* C2: the process finishes with status 0 exactly when the options were
\* built and every input file was converted, and when a conversion failed
\* it finishes with a non-zero status only after the loop has reached every
\* input file.
C2_ExitStatus ==
    pc = "done" =>
        /\ exit_code = Some(0) <=>
              /\ OptionsBuilt
              /\ Len(results) = Len(cli.input_files)
              /\ \A k \in 1..Len(results) : results[k].outcome = "Ok"
        /\ failed > 0 =>
              /\ exit_code = Some(1)
              /\ total_files = Len(cli.input_files)

\* The components of a path, read from the front: the texts between the
\* separators, without the empty ones and the "." ones.
RECURSIVE Split(_, _)
Split(p, cur) ==
    LET done == IF cur = <<>> \/ cur = <<".">> THEN <<>> ELSE <<cur>>
    IN IF p = <<>> THEN done
       ELSE IF Head(p) = "/" THEN done \o Split(Tail(p), <<>>)
       ELSE Split(Tail(p), Append(cur, Head(p)))

Components(p) == Split(p, <<>>)

Front(s) == SubSeq(s, 1, Len(s) - 1)

\* A file name without its last extension: what precedes its last ".",
\* the whole name when its only "." is the first character or it has none.
WithoutExtension(name) ==
    LET dots == {k \in 2..Len(name) : name[k] = "."}
    IN IF dots = {} THEN name
       ELSE SubSeq(name, 1, (CHOOSE k \in dots : \A j \in dots : j <= k) - 1)

\* The input names a file whose stem is valid UTF-8.
HasUtf8Stem(p) ==
    /\ Components(p) # <<>>
    /\ Components(p)[Len(Components(p))] # <<".", ".">>
    /\ LET stem == WithoutExtension(Components(p)[Len(Components(p))])
       IN \A k \in 1..Len(stem) : stem[k] # "?"

\* Directories the input file is moved to, to see whether the result
\* depends on them.
OtherDirs == {<<>>, <<"/">>, <<"a", "/">>, <<".", ".", "/">>, <<"?", "/", "a", "/">>}

\* C3: for an input with a valid UTF-8 file stem, determine_output_path
\* returns <dir>/<stem>.parquet, <stem> the file name without its last
\* extension and <dir> the --output-dir value when given, the directory of
\* the input otherwise; with --output-dir the result is the same wherever
\* the input file lies.
C3_OutputPath ==
    (pc = "path_done" /\ HasUtf8Stem(cli.input_files[1])) =>
        LET input == cli.input_files[1]
            comps == Components(input)
            name == comps[Len(comps)]
            filename == WithoutExtension(name) \o Extension
            r == output_path[1]
        IN /\ r.ok
           /\ IF cli.output_dir # None
              THEN LET dir == cli.output_dir[1]
                   IN /\ Components(r.val) = Components(dir) \o <<filename>>
                      /\ HasRoot(r.val) = HasRoot(dir)
                      /\ (dir # <<>> /\ dir[Len(dir)] # "/") =>
                            r.val = dir \o <<"/">> \o filename
                      /\ \A d \in OtherDirs :
                            determine_output_path(d \o name, cli.output_dir) = r
              ELSE /\ Components(r.val) = Front(comps) \o <<filename>>
                   /\ HasRoot(r.val) = HasRoot(input)
                   /\ Len(comps) = 1 /\ ~HasRoot(input) /\ ~IncludeCurDir(input)
                         => r.val = filename

\* C3 witness: an input in a directory, with an extension, and --output-dir.
C3_Witness ==
    /\ pc = "path_done"
    /\ cli.input_files[1] = <<"/", "a", ".", "a">>
    /\ cli.output_dir = Some(<<"a">>)
    /\ output_path = Some(Ok(<<"a", "/", "a">> \o Extension))

\* C4: build_conversion_options turns --infer-schema-rows 0 and --threads 0
\* into None and any other value n into Some(n), negates --no-statistics
\* and --no-parallel, copies has_header and low_memory, and always wraps
\* --row-group-size in Some.
C4_SentinelMapping ==
    (pc # "start" /\ OptionsBuilt) =>
        LET o == options[1].val
        IN /\ cli.infer_schema_rows = 0 => o.infer_schema_rows = None
           /\ cli.infer_schema_rows > 0 =>
                 o.infer_schema_rows = <<cli.infer_schema_rows>>
           /\ cli.threads = 0 => o.n_threads = None
           /\ cli.threads > 0 => o.n_threads = <<cli.threads>>
           /\ o.statistics = ~cli.no_statistics
           /\ o.parallel = ~cli.no_parallel
           /\ o.has_header = cli.has_header
           /\ o.low_memory = cli.low_memory
           /\ o.row_group_size = <<cli.row_group_size>>

C4_Witness ==
    /\ pc = "loop"
    /\ OptionsBuilt
    /\ cli.threads = 0
    /\ cli.infer_schema_rows = 1
    /\ cli.row_group_size = 0
    /\ cli.no_statistics
    /\ ~cli.has_header
    /\ options[1].val.n_threads = None
    /\ options[1].val.infer_schema_rows = <<1>>

NoOptionalFlag == \A f \in DOMAIN CliDefaults : cli[f] = CliDefaults[f]

\* C5: ConversionOptions::default() has a header, the delimiter ',' and
\* 1000 schema rows, and the options built from a command line without any
\* optional flag equal it field by field.
C5_DefaultsAgree ==
    /\ ConversionOptions_default.has_header = TRUE
    /\ ConversionOptions_default.delimiter = 44
    /\ ConversionOptions_default.infer_schema_rows = <<1000>>
    /\ (pc # "start" /\ NoOptionalFlag) =>
          /\ OptionsBuilt
          /\ LET o == options[1].val
             IN /\ o.compression = [tag |-> "Zstd", level |-> <<>>]
                /\ o.quote_char = <<34>>
                /\ o.row_group_size = <<500000>>
                /\ o.n_threads = <<>>
                /\ o.low_memory = FALSE
                /\ o.statistics = TRUE
                /\ o.parallel = TRUE
                /\ \A f \in DOMAIN ConversionOptions_default :
                      o[f] = ConversionOptions_default[f]
                /\ DOMAIN o = DOMAIN ConversionOptions_default

C5_Witness ==
    /\ pc = "loop"
    /\ NoOptionalFlag
    /\ OptionsBuilt
    /\ options[1].val.delimiter = 44

ValidLevels(tag) ==
    CASE tag = "Gzip" -> GzipLevels
      [] tag = "Zstd" -> ZstdLevels
      [] tag = "Brotli" -> BrotliLevels
      [] OTHER -> {}

\* C6: to_parquet_compression returns Ok for the codecs without a level and
\* for Gzip, Zstd and Brotli without one; with a level inside the codec's
\* range it returns Ok with that codec and that level, with a level outside
\* it the error InvalidCompressionLevel.
C6_ToParquetCompression ==
    pc = "compression_done" =>
        LET c == compression
            r == parquet[1]
        IN /\ c.level = None => r.ok /\ r.val.level = <<>>
           /\ c.tag \in {"Uncompressed", "Snappy"} => r.val.codec = c.tag
           /\ c.tag = "Lz4" => r.val.codec = "Lz4Raw"
           /\ (c.level # None /\ c.level[1] \in ValidLevels(c.tag)) =>
                 /\ r.ok
                 /\ r.val.codec = c.tag
                 /\ r.val.level = c.level
           /\ (c.level # None /\ c.level[1] \notin ValidLevels(c.tag)) =>
                 /\ ~r.ok
                 /\ r.err = "InvalidCompressionLevel"
           /\ c = [tag |-> "Zstd", level |-> <<3>>] => r.ok

\* C6 witness: a Zstd level above the range has been rejected.
C6_Witness ==
    /\ pc = "compression_done"
    /\ compression = [tag |-> "Zstd", level |-> <<23>>]
    /\ ~parquet[1].ok
====
